---- MODULE Spec2Model ----
(***************************************************************************)
(* Model of src/dwyt.py: the ThreadManager worker pool (producer,          *)
(* dispatcher thread, task threads), the DeferredLogger and main().        *)
(*                                                                         *)
(* Threads are identified by their submission ordinal 1..MaxTasks (the     *)
(* k-th Thread object built by schedule_task has identity k); 0 stands     *)
(* for Python's None.  Slot indices and task_index are 0-based as in the   *)
(* code.  The Condition's lock is held across steps only by the            *)
(* dispatcher; every other critical section is one atomic action that      *)
(* requires the lock to be free.                                           *)
(***************************************************************************)
EXTENDS Integers, Sequences, FiniteSets, TLC

\* Bounds of the model.
MaxTasks == 3
MaxThreads == 2

None == 0
NoIndex == -1
\* a Thread whose _kwargs has no "task_data" entry yet
NoData == [thread_index |-> NoIndex, task_index |-> NoIndex]

TaskIds == 1..MaxTasks

VARIABLES
    thread_count,      \* ThreadManager._thread_count
    input,             \* lines that query_lines/parse_lines will still yield
    main,              \* position of the main (producer) thread
    join_pos,          \* position of __exit__'s loop over self._threads
    scheduled_tasks,   \* ThreadManager._scheduled_tasks
    threads,           \* ThreadManager._threads
    shutdown,          \* ThreadManager._dispatcher_shutdown (Event)
    disp,              \* position of the dispatcher thread
    scheduled_task,    \* local of _dispatcher_routine: the popped task
    index,             \* local of _dispatcher_routine / scan position
    tasks_started,     \* ThreadManager._dispatcher_tasks_started
    task,              \* state of every Thread object built by schedule_task
    task_data,         \* Thread._kwargs["task_data"] of every task
    created,           \* number of Thread objects built so far
    lines,             \* DeferredLogger._lines
    printed            \* what output_logs has printed

vars == <<thread_count, input, main, join_pos, scheduled_tasks, threads,
          shutdown, disp, scheduled_task, index, tasks_started, task,
          task_data, created, lines, printed>>

AliveStates == {"target", "download", "returned", "exiting", "unwinding"}
TerminatedStates == {"dead", "crashed"}

\* Thread.is_alive(): true from start() until the thread has terminated;
\* a thread that left wrapped_target's with-block but has not yet
\* terminated is still alive.
is_alive_flag(t) == task[t] \in {"target", "download"}
is_alive(t) == task[t] \in AliveStates

\* "if thread is not None: thread.join()" can proceed
joined_nowait(th) == TRUE
joined(th) == IF th = None THEN TRUE ELSE ~is_alive(th)

\* the condition of _get_available_thread_index for one slot
slot_free_any(i) == TRUE
slot_free(i) == IF threads[i] = None THEN TRUE ELSE ~is_alive(threads[i])

\* _get_available_thread_index, evaluated at one instant.  Used for the
\* wait predicate only, where just "is not None" matters: threads only go
\* from alive to not alive while the dispatcher holds the lock, so the
\* boolean equals that of a scan at one instant.
_get_available_thread_index ==
    IF \E i \in 0..(thread_count - 1) : slot_free(i)
    THEN CHOOSE i \in 0..(thread_count - 1) :
            slot_free(i) /\ \A j \in 0..(i - 1) : ~slot_free(j)
    ELSE NoIndex

wait_predicate_noshutdown ==
    LET has_task == Len(scheduled_tasks) > 0
        has_thread == _get_available_thread_index # NoIndex
    IN  has_task /\ has_thread
wait_predicate_nothread ==
    LET has_task == Len(scheduled_tasks) > 0
    IN  has_task \/ (~has_task /\ shutdown)
wait_predicate ==
    LET has_task == Len(scheduled_tasks) > 0
        has_thread == _get_available_thread_index # NoIndex
    IN  (has_task /\ has_thread) \/ (~has_task /\ shutdown)

\* scheduled_tasks.pop(0): <<popped element, remaining list>>
pop_last(q) == <<q[Len(q)], SubSeq(q, 1, Len(q) - 1)>>
pop_keep(q) == <<Head(q), q>>
pop0(q) == <<Head(q), Tail(q)>>

\* self._dispatcher_tasks_started += 1
same_tasks_started(n) == n
next_tasks_started(n) == n + 1

\* the dispatcher holds the Condition's lock
LockFree == disp \notin {"scan", "join"}

\* Condition.notify(): wakes the dispatcher if it is waiting, else no effect
notify(d) == IF d = "waiting" THEN "notified" ELSE d

Init ==
    /\ thread_count \in 1..MaxThreads
    /\ input \in 0..MaxTasks
    /\ main = "enter"
    /\ join_pos = 0
    /\ scheduled_tasks = <<>>
    /\ threads = [i \in 0..(thread_count - 1) |-> None]
    /\ shutdown = FALSE
    /\ disp = "init"
    /\ scheduled_task = None
    /\ index = NoIndex
    /\ tasks_started = 0
    /\ task = [t \in TaskIds |-> "absent"]
    /\ task_data = [t \in TaskIds |-> NoData]
    /\ created = 0
    /\ lines = <<>>
    /\ printed = <<>>

----------------------------------------------------------------------------
\* main thread

\* __enter__: start the dispatcher thread
MainEnter ==
    /\ main = "enter"
    /\ main' = "submit"
    /\ disp' = "wait_for"
    /\ UNCHANGED <<thread_count, input, join_pos, scheduled_tasks, threads,
                   shutdown, scheduled_task, index, tasks_started, task,
                   task_data, created, lines, printed>>

\* schedule_task: build the Thread, append it and notify, under the lock
schedule_task_bounded ==
    /\ LockFree
    /\ Len(scheduled_tasks) < thread_count
    /\ created' = created + 1
    /\ task' = [task EXCEPT ![created + 1] = "created"]
    /\ scheduled_tasks' = Append(scheduled_tasks, created + 1)
    /\ disp' = notify(disp)
schedule_task ==
    /\ LockFree
    /\ created' = created + 1
    /\ task' = [task EXCEPT ![created + 1] = "created"]
    /\ scheduled_tasks' = Append(scheduled_tasks, created + 1)
    /\ disp' = notify(disp)

\* one iteration of main's for loop
MainSchedule ==
    /\ main = "submit"
    /\ input > 0
    /\ schedule_task
    /\ input' = input - 1
    /\ UNCHANGED <<thread_count, main, join_pos, threads, shutdown,
                   scheduled_task, index, tasks_started, task_data, lines,
                   printed>>

\* the input ends; __exit__ sets the shutdown event (outside the lock)
MainExitSet ==
    /\ main = "submit"
    /\ input = 0
    /\ shutdown' = TRUE
    /\ main' = "exit_notify"
    /\ UNCHANGED <<thread_count, input, join_pos, scheduled_tasks, threads,
                   disp, scheduled_task, index, tasks_started, task,
                   task_data, created, lines, printed>>

\* __exit__: with self._dispatcher_notify: notify()
MainExitNotify ==
    /\ main = "exit_notify"
    /\ LockFree
    /\ disp' = notify(disp)
    /\ main' = "exit_join_dispatcher"
    /\ UNCHANGED <<thread_count, input, join_pos, scheduled_tasks, threads,
                   shutdown, scheduled_task, index, tasks_started, task,
                   task_data, created, lines, printed>>

\* __exit__: self._dispatcher.join()
MainJoinDispatcher ==
    /\ main = "exit_join_dispatcher"
    /\ disp \in {"stopped", "crashed"}
    /\ main' = "exit_join_threads"
    /\ join_pos' = 0
    /\ UNCHANGED <<thread_count, input, scheduled_tasks, threads, shutdown,
                   disp, scheduled_task, index, tasks_started, task,
                   task_data, created, lines, printed>>

\* __exit__: one iteration of "for thread in self._threads", or its end
MainJoinThreads ==
    /\ main = "exit_join_threads"
    /\ IF join_pos < thread_count
       THEN /\ joined(threads[join_pos])
            /\ join_pos' = join_pos + 1
            /\ main' = main
       ELSE /\ main' = "print_done"
            /\ join_pos' = join_pos
    /\ UNCHANGED <<thread_count, input, scheduled_tasks, threads, shutdown,
                   disp, scheduled_task, index, tasks_started, task,
                   task_data, created, lines, printed>>

\* DeferredLogger.output_logs: print every buffered line, clear the buffer
output_logs_noclear ==
    /\ printed' = printed \o lines
    /\ lines' = lines
output_logs ==
    /\ printed' = printed \o lines
    /\ lines' = <<>>

\* print("Done"); logger.output_logs()
MainOutputLogs ==
    /\ main = "print_done"
    /\ output_logs
    /\ main' = "done"
    /\ UNCHANGED <<thread_count, input, join_pos, scheduled_tasks, threads,
                   shutdown, disp, scheduled_task, index, tasks_started, task,
                   task_data, created>>

----------------------------------------------------------------------------
\* dispatcher thread

\* with self._dispatcher_notify: wait_for(wait_predicate), then the test of
\* line 52 / line 71.  Entered on the first pass of the loop and after each
\* notification; a false predicate releases the lock and waits.
DispWaitFor ==
    /\ disp \in {"wait_for", "notified"}
    /\ IF ~wait_predicate
       THEN /\ disp' = "waiting"
            /\ UNCHANGED <<scheduled_tasks, scheduled_task, index>>
       ELSE IF Len(scheduled_tasks) > 0
       THEN /\ scheduled_task' = pop0(scheduled_tasks)[1]
            /\ scheduled_tasks' = pop0(scheduled_tasks)[2]
            /\ index' = 0
            /\ disp' = "scan"
       ELSE /\ disp' = IF shutdown THEN "stopped" ELSE "wait_for"
            /\ UNCHANGED <<scheduled_tasks, scheduled_task, index>>
    /\ UNCHANGED <<thread_count, input, main, join_pos, threads, shutdown,
                   tasks_started, task, task_data, created, lines, printed>>

\* one iteration of the loop of _get_available_thread_index at line 55
DispScan ==
    /\ disp = "scan"
    /\ IF index = thread_count
       THEN /\ index' = NoIndex
            /\ disp' = "join"
       ELSE IF slot_free(index)
       THEN /\ index' = index
            /\ disp' = "join"
       ELSE /\ index' = index + 1
            /\ disp' = disp
    /\ UNCHANGED <<thread_count, input, main, join_pos, scheduled_tasks,
                   threads, shutdown, scheduled_task, tasks_started, task,
                   task_data, created, lines, printed>>

\* lines 58-69: join the previous occupant, assign task data, bind, start.
\* self._threads[None] raises TypeError, which ends the dispatcher thread.
DispLaunch ==
    /\ disp = "join"
    /\ IF index = NoIndex
       THEN /\ disp' = "crashed"
            /\ UNCHANGED <<threads, tasks_started, task, task_data,
                           scheduled_task, index>>
       ELSE /\ joined(threads[index])
            /\ tasks_started' = next_tasks_started(tasks_started)
            /\ threads' = [threads EXCEPT ![index] = scheduled_task]
            /\ task_data' = [task_data EXCEPT ![scheduled_task] =
                     [thread_index |-> index, task_index |-> tasks_started]]
            /\ task' = [task EXCEPT ![scheduled_task] = "target"]
            /\ scheduled_task' = None
            /\ index' = NoIndex
            /\ disp' = "wait_for"
    /\ UNCHANGED <<thread_count, input, main, join_pos, scheduled_tasks,
                   shutdown, created, lines, printed>>

----------------------------------------------------------------------------
\* task threads

\* DeferredLogger.log
log_prepend(tag, t) ==
    lines' = <<[tag |-> tag,
                task_index |-> task_data[t].task_index,
                thread_index |-> task_data[t].thread_index]>> \o lines
log(tag, t) ==
    lines' = Append(lines, [tag |-> tag,
                            task_index |-> task_data[t].task_index,
                            thread_index |-> task_data[t].thread_index])

\* download_video up to its log call: the lookup of the stream fails
\* (ERROR line, the function returns) or succeeds (success line, then the
\* download)
TaskLog(t) ==
    /\ task[t] = "target"
    /\ \/ /\ log("ERROR", t)
          /\ task' = [task EXCEPT ![t] = "returned"]
       \/ /\ log("OK", t)
          /\ task' = [task EXCEPT ![t] = "download"]
    /\ UNCHANGED <<thread_count, input, main, join_pos, scheduled_tasks,
                   threads, shutdown, disp, scheduled_task, index,
                   tasks_started, task_data, created, printed>>

\* selected_stream.download(...), outside the try block: it returns, or it
\* raises and the exception leaves wrapped_target
TaskDownload(t) ==
    /\ task[t] = "download"
    /\ \/ task' = [task EXCEPT ![t] = "returned"]
       \/ task' = [task EXCEPT ![t] = "unwinding"]
    /\ UNCHANGED <<thread_count, input, main, join_pos, scheduled_tasks,
                   threads, shutdown, disp, scheduled_task, index,
                   tasks_started, task_data, created, lines, printed>>

\* wrapped_target after target returned: with lock: notify()
TaskNotify(t) ==
    /\ task[t] = "returned"
    /\ LockFree
    /\ disp' = notify(disp)
    /\ task' = [task EXCEPT ![t] = "exiting"]
    /\ UNCHANGED <<thread_count, input, main, join_pos, scheduled_tasks,
                   threads, shutdown, scheduled_task, index, tasks_started,
                   task_data, created, lines, printed>>

\* the thread terminates: is_alive() becomes False
TaskTerminate(t) ==
    /\ task[t] \in {"exiting", "unwinding"}
    /\ task' = [task EXCEPT ![t] =
                    IF task[t] = "exiting" THEN "dead" ELSE "crashed"]
    /\ UNCHANGED <<thread_count, input, main, join_pos, scheduled_tasks,
                   threads, shutdown, disp, scheduled_task, index,
                   tasks_started, task_data, created, lines, printed>>

----------------------------------------------------------------------------
\* another thread of the client calls schedule_task after the shutdown
\* signal and before __exit__ has returned
OtherSchedule ==
    /\ shutdown
    /\ main \in {"exit_notify", "exit_join_dispatcher", "exit_join_threads"}
    /\ created < MaxTasks
    /\ schedule_task
    /\ UNCHANGED <<thread_count, input, main, join_pos, threads, shutdown,
                   scheduled_task, index, tasks_started, task_data, lines,
                   printed>>

\* another thread of the client calls logger.output_logs() while the pool
\* runs (main itself flushes once, after __exit__)
OtherOutputLogs ==
    /\ main \notin {"enter", "print_done", "done"}
    /\ output_logs
    /\ UNCHANGED <<thread_count, input, main, join_pos, scheduled_tasks,
                   threads, shutdown, disp, scheduled_task, index,
                   tasks_started, task, task_data, created>>

Main ==
    \/ MainEnter
    \/ MainSchedule
    \/ MainExitSet
    \/ MainExitNotify
    \/ MainJoinDispatcher
    \/ MainJoinThreads
    \/ MainOutputLogs

Dispatcher ==
    \/ DispWaitFor
    \/ DispScan
    \/ DispLaunch

Task(t) ==
    \/ TaskLog(t)
    \/ TaskDownload(t)
    \/ TaskNotify(t)
    \/ TaskTerminate(t)

Next ==
    \/ Main
    \/ Dispatcher
    \/ \E t \in TaskIds : Task(t)

Spec == Init /\ [][Next]_vars

\* every thread is scheduled fairly and every task body terminates
Fairness ==
    /\ WF_vars(Main)
    /\ WF_vars(Dispatcher)
    /\ \A t \in TaskIds : WF_vars(Task(t))

FairSpec == Spec /\ Fairness

NextClient ==
    \/ Next
    \/ OtherSchedule

SpecClient == Init /\ [][NextClient]_vars

NextLogger ==
    \/ Next
    \/ OtherOutputLogs

SpecLogger == Init /\ [][NextLogger]_vars

----------------------------------------------------------------------------
\* Properties

Launched(t) == task[t] \notin {"absent", "created"}
Running(t) == task[t] \in AliveStates
Terminated(t) == task[t] \in TerminatedStates
ExitReturned == main \in {"print_done", "done"}

\* number of lines with the given tag logged by task t (buffered or printed)
LogCount(tag, t) ==
    LET all == lines \o printed
    IN  Cardinality({k \in 1..Len(all) :
            all[k].tag = tag /\ all[k].task_index = task_data[t].task_index})

\* C1: in every reachable state at most thread_count launched tasks have
\* not yet terminated.
C1_AtMostNRunning ==
    Cardinality({t \in TaskIds : Running(t)}) <= thread_count

C1_Witness ==
    /\ thread_count = 2
    /\ Cardinality({t \in TaskIds : Running(t)}) = 2
    /\ Len(scheduled_tasks) > 0

\* C2: tasks are started in the order in which schedule_task appended them:
\* whenever a task is started, every task appended before it has already
\* been started.
C2_FifoLaunch ==
    [][\A b \in TaskIds :
          (task[b] = "created" /\ task'[b] = "target")
              => \A a \in 1..(b - 1) : Launched(a)]_vars

C2_Witness ==
    /\ Launched(1) /\ Launched(2)
    /\ task_data[1].task_index < task_data[2].task_index
    /\ Len(scheduled_tasks) > 0

\* C3: when the dispatcher has stopped every submitted task has been
\* launched, and when __exit__ has returned the queue is empty and every
\* launched task has terminated.
C3_DrainBeforeReturn ==
    /\ disp = "stopped" =>
          \A t \in TaskIds : task[t] # "absent" => Launched(t)
    /\ ExitReturned =>
          /\ scheduled_tasks = <<>>
          /\ \A t \in TaskIds : Launched(t) => Terminated(t)

C3_Witness ==
    /\ main = "print_done"
    /\ thread_count = 1
    /\ tasks_started >= 2
    /\ \A t \in TaskIds : Launched(t) => Terminated(t)

\* C4: under fair scheduling, if no exception escapes a task body, every
\* submitted task is eventually launched and terminates, the dispatcher
\* eventually stops and __exit__ eventually returns.
NoEscape == \A t \in TaskIds : task[t] \notin {"unwinding", "crashed"}
C4_DrainLive ==
    []NoEscape =>
        /\ <>(disp = "stopped")
        /\ <>ExitReturned
        /\ \A t \in TaskIds : [](task[t] = "created" => <>(task[t] = "dead"))

\* C5: every running task occupies the slot named in its task_data, no two
\* running tasks share a slot, and a slot is rebound only when its previous
\* occupant has terminated.
C5_SlotBinding ==
    \A t \in TaskIds : Running(t) =>
        /\ task_data[t].thread_index \in 0..(thread_count - 1)
        /\ threads[task_data[t].thread_index] = t
C5_Rebind ==
    \A i \in 0..(thread_count - 1) :
        threads'[i] # threads[i] =>
            IF threads[i] = None THEN TRUE ELSE Terminated(threads[i])
C5_SlotExclusive == []C5_SlotBinding /\ [][C5_Rebind]_vars

C5_Witness ==
    \E i \in 0..(thread_count - 1) : \E t \in TaskIds :
        /\ threads[i] # None /\ threads[i] # t
        /\ Running(threads[i])
        /\ Terminated(t)
        /\ task_data[t].thread_index = i

\* C6: when __exit__ has returned, every task that was submitted (also one
\* submitted after the shutdown signal) has been launched and has
\* terminated.
C6_NoLateTaskDropped ==
    ExitReturned =>
        \A t \in TaskIds : task[t] # "absent" => Terminated(t)

\* C7: the k-th submitted task is the k-th launched and receives
\* task_index k (counting from 0); task data exists exactly for launched
\* tasks and never changes afterwards.
C7_Numbering ==
    /\ tasks_started = Cardinality({t \in TaskIds : Launched(t)})
    /\ \A t \in TaskIds :
          IF Launched(t) THEN task_data[t].task_index = t - 1
                         ELSE task_data[t] = NoData
C7_Immutable ==
    \A t \in TaskIds : task_data[t] # NoData => task_data'[t] = task_data[t]
C7_SequenceNumbers == []C7_Numbering /\ [][C7_Immutable]_vars

C7_Witness ==
    /\ tasks_started >= 2
    /\ Terminated(1)
    /\ task_data[2].task_index = 1

\* C8: every task whose thread has terminated has notified the dispatcher's
\* condition ("dead" is reached only through the notify of wrapped_target,
\* "crashed" only by an exception that left the task function).
C8_AlwaysNotifies ==
    \A t \in TaskIds : Terminated(t) => task[t] = "dead"

\* C9: a task whose work failed has logged exactly one ERROR line and no
\* success line.
Failed(t) ==
    \/ task[t] \in {"unwinding", "crashed"}
    \/ Launched(t) /\ LogCount("ERROR", t) > 0
C9_FailureContained ==
    \A t \in TaskIds : Failed(t) =>
        LogCount("ERROR", t) = 1 /\ LogCount("OK", t) = 0

\* C10: if __exit__ is called while the queue is empty and no task is
\* queued, being launched or running, __exit__ eventually returns.
Idle ==
    /\ scheduled_tasks = <<>>
    /\ \A t \in TaskIds : task[t] \in {"absent", "dead", "crashed"}
C10_IdleShutdownReturns ==
    (main = "submit" /\ input = 0 /\ Idle) ~> ExitReturned

C10_Witness ==
    /\ main = "print_done"
    /\ disp = "stopped"
    /\ created = 0

\* C11: output_logs prints exactly the buffered lines, in buffer order, and
\* leaves the buffer empty; over log and output_logs calls in any
\* interleaving, the printed lines followed by the buffered lines only ever
\* grow by one appended line (nothing lost, duplicated or reordered), and
\* an output_logs on an empty buffer prints nothing.
AllLines == printed \o lines
C11_FlushStep ==
    printed' # printed =>
        /\ printed' = printed \o lines
        /\ lines' = <<>>
C11_AppendOnly ==
    \/ AllLines' = AllLines
    \/ /\ Len(AllLines') = Len(AllLines) + 1
       /\ SubSeq(AllLines', 1, Len(AllLines)) = AllLines
       /\ lines' = Append(lines, AllLines'[Len(AllLines')])
C11_OncePerTask ==
    \A t \in TaskIds :
        (task[t] \in {"download", "returned", "exiting", "unwinding",
                      "dead", "crashed"})
            => LogCount("ERROR", t) + LogCount("OK", t) = 1
C11_FlushExact ==
    /\ [][C11_FlushStep /\ C11_AppendOnly]_vars
    /\ []C11_OncePerTask

C11_Witness ==
    /\ Len(printed) >= 1
    /\ Len(lines) >= 1
    /\ \E t \in TaskIds : task[t] = "target"

\* C12: in main, output_logs prints only after __exit__ has returned: once
\* anything has been printed no task is running or can still log, the
\* buffer is empty, and the output holds the one line of every task that
\* was launched.
C12_FlushAfterDrain ==
    /\ printed # <<>> => main = "done"
    /\ main = "done" =>
          /\ lines = <<>>
          /\ \A t \in TaskIds : Launched(t) =>
                /\ Terminated(t)
                /\ \E k \in 1..Len(printed) :
                      printed[k].task_index = task_data[t].task_index
          /\ Len(printed) = tasks_started

C12_Witness ==
    /\ main = "done"
    /\ Len(printed) >= 2
    /\ thread_count = 2

\* C13: a queued task is started only in a slot whose previous occupant has
\* finished, and, when no exception escapes a task, once the task at the
\* front of the queue sees a slot whose occupant has finished it is
\* eventually launched.
OccupantFinished(i) ==
    IF threads[i] = None THEN FALSE ELSE Terminated(threads[i])
FrontTask == IF Len(scheduled_tasks) > 0 THEN Head(scheduled_tasks) ELSE None
C13_LaunchNeedsFreeSlot ==
    \A i \in 0..(thread_count - 1) :
        threads'[i] # threads[i] => (threads[i] = None \/ OccupantFinished(i))
C13_OneFreedSlotSuffices ==
    /\ [][C13_LaunchNeedsFreeSlot]_vars
    /\ []NoEscape =>
          \A t \in TaskIds :
              []((FrontTask = t /\ \E i \in 0..(thread_count - 1) :
                                      OccupantFinished(i))
                    => <>Launched(t))

\* C14: with one slot, a task is launched only after the task submitted
\* before it has terminated, tasks terminate in submission order, the log
\* lines are in submission order, and once __exit__ has returned a run
\* whose tasks all succeeded has exactly one line per submitted task.
C14_Serial ==
    thread_count = 1 =>
        /\ \A t \in TaskIds : t > 1 /\ Launched(t) => Terminated(t - 1)
        /\ \A k \in 1..Len(AllLines) : AllLines[k].task_index = k - 1
        /\ (ExitReturned /\ NoEscape) =>
              /\ Len(AllLines) = created
              /\ (\A k \in 1..Len(AllLines) : AllLines[k].tag = "OK")
                    => \A t \in 1..created : task[t] = "dead"

C14_Witness ==
    /\ thread_count = 1
    /\ main = "print_done"
    /\ created = 3
    /\ Len(lines) = 3
    /\ \A k \in 1..Len(lines) : lines[k].tag = "OK"

\* C15: whenever a producer is at a schedule_task call and the dispatcher
\* does not hold the lock, the call can complete at once, whatever the
\* queue length, the number of busy slots and the shutdown flag; while the
\* dispatcher holds the lock it can itself proceed, so the call never
\* waits for a slot or for a task.
AllSlotsBusy ==
    \A i \in 0..(thread_count - 1) :
        IF threads[i] = None THEN FALSE ELSE Running(threads[i])
C15_SubmitNeverBlocks ==
    /\ (main = "submit" /\ input > 0 /\ LockFree) => ENABLED MainSchedule
    /\ (/\ shutdown
        /\ main \in {"exit_notify", "exit_join_dispatcher",
                      "exit_join_threads"}
        /\ created < MaxTasks
        /\ LockFree) => ENABLED OtherSchedule
    /\ ~LockFree => ENABLED Dispatcher

C15_Witness ==
    /\ main = "submit"
    /\ input > 0
    /\ LockFree
    /\ AllSlotsBusy
    /\ Len(scheduled_tasks) >= thread_count

\* C16 (as stated): at every launch (here: of a run in which no exception
\* has escaped a task) the claimed slot is free and every slot with a lower
\* index holds a still-running task at that moment.
SlotIdle(i) == IF threads[i] = None THEN TRUE ELSE Terminated(threads[i])
LaunchStep == disp = "join" /\ disp' = "wait_for"
C16_ScanStep ==
    /\ (disp # "scan" /\ disp' = "scan") => index' = 0
    /\ (disp = "scan" /\ disp' = "scan" /\ index' # index) =>
          index' = index + 1 /\ ~SlotIdle(index)
    /\ (disp = "scan" /\ disp' = "join") =>
          index' = index /\ index < thread_count /\ SlotIdle(index)
    /\ LaunchStep =>
          /\ SlotIdle(index)
          /\ threads' = [threads EXCEPT ![index] = scheduled_task]
          /\ task_data'[scheduled_task].thread_index = index
Signaled(t) == task[t] \in {"exiting", "dead"}
C17_FreeOnceSignaled ==
    disp = "notified" =>
        \A t \in TaskIds :
            (Signaled(t) /\ threads[task_data[t].thread_index] = t)
                => slot_free(task_data[t].thread_index)

\* C18: when the dispatcher reaches the join of line 59 the previous
\* occupant of the claimed slot has already terminated, and whenever the
\* dispatcher holds the monitor it can take its next step.
C18_JoinNeverWaits ==
    /\ (disp = "join" /\ index # NoIndex) => SlotIdle(index)
    /\ disp \in {"scan", "join"} => ENABLED Dispatcher

C18_Witness ==
    /\ disp = "join"
    /\ index # NoIndex
    /\ threads[index] # None
    /\ \E t \in TaskIds : task[t] = "returned"

\* C19: after the dispatcher has popped a task, the lookup of line 55 finds
\* a free slot: a free slot remains at or after the scan position, the
\* index at the join is never None, and the dispatcher never fails.
C19_IndexNeverNone ==
    /\ disp = "scan" =>
          \E i \in index..(thread_count - 1) : SlotIdle(i)
    /\ disp = "join" => index \in 0..(thread_count - 1)
    /\ disp # "crashed"

C19_Witness ==
    /\ disp = "join"
    /\ index = 1
    /\ threads[0] # None
    /\ SlotIdle(0)

\* C20: a submitted task is in exactly one place: in the queue, held by the
\* dispatcher between pop and start (only while it holds the monitor), or
\* launched; it occurs at most once in the queue and in at most one slot,
\* only launched tasks are bound to slots, and a task is started only
\* from the not-yet-started state.
InQueue(t) == \E k \in 1..Len(scheduled_tasks) : scheduled_tasks[k] = t
Places(t) ==
    (IF InQueue(t) THEN 1 ELSE 0) + (IF scheduled_task = t THEN 1 ELSE 0)
        + (IF Launched(t) THEN 1 ELSE 0)
C20_OnePlace ==
    /\ \A t \in TaskIds : Places(t) = (IF task[t] = "absent" THEN 0 ELSE 1)
    /\ \A t \in TaskIds :
          /\ Cardinality({k \in 1..Len(scheduled_tasks) :
                             scheduled_tasks[k] = t}) <= 1
          /\ Cardinality({i \in 0..(thread_count - 1) : threads[i] = t}) <= 1
    /\ \A i \in 0..(thread_count - 1) :
          threads[i] # None => Launched(threads[i])
    /\ LockFree => scheduled_task = None
C20_StartOnce ==
    \A t \in TaskIds :
        (task'[t] = "target" /\ task[t] # "target") =>
            /\ task[t] = "created"
            /\ scheduled_task = t
            /\ ~InQueue(t)'
            /\ \E i \in 0..(thread_count - 1) :
                  threads[i] # t /\ threads'[i] = t
C20_LaunchedOnce == []C20_OnePlace /\ [][C20_StartOnce]_vars

C20_Witness ==
    /\ disp = "join"
    /\ scheduled_task # None
    /\ Len(scheduled_tasks) > 0
    /\ \E t \in TaskIds : Terminated(t)

====
